---- MODULE Spec2Model ----
(***************************************************************************)
(* Model of plotroc.py: ROC operating-point scans, partial AUC, the PAV    *)
(* isotonic solver and the reliability-curve binner.                       *)
(*                                                                         *)
(* Floating-point numbers are modelled as exact rationals <<num, den>>     *)
(* (den > 0, lowest terms).  Rates of a curve are held as numerators over  *)
(* Grid.  Python sequences are 0-based; the sequences here are 1-based and *)
(* PyAt translates a Python index, negative ones included.                 *)
(***************************************************************************)
EXTENDS Integers, Sequences, FiniteSets, TLC

\* ---------------------------------------------------------------- bounds
\* rates of a curve, operating points and targets are k / Grid
Grid == 3
\* largest number of points of a curve
MaxPts == 4
\* Nn and Np range over 1..MaxCount
MaxCount == 2
\* largest number of samples given to pav_rocch
MaxN == 3
\* largest number of samples given to reliability_curve
MaxSamples == 2
\* scores of pav_rocch are 0..MaxScore
MaxScore == 1
\* largest number of bins of reliability_curve
MaxBins == 3

\* ------------------------------------------------------------- rationals
RECURSIVE GCD(_, _)
GCD(a, b) == IF b = 0 THEN a ELSE GCD(b, a % b)

Abs(a) == IF a < 0 THEN -a ELSE a

\* the rational n/d in lowest terms with a positive denominator
Rat(n, d) ==
    LET s == IF d < 0 THEN -1 ELSE 1
        g == GCD(Abs(n), Abs(d))
    IN  <<(s * n) \div g, (s * d) \div g>>

RInt(k) == <<k, 1>>
RAdd(a, b) == Rat(a[1] * b[2] + b[1] * a[2], a[2] * b[2])
RSub(a, b) == Rat(a[1] * b[2] - b[1] * a[2], a[2] * b[2])
RMul(a, b) == Rat(a[1] * b[1], a[2] * b[2])
RDiv(a, b) == Rat(a[1] * b[2], a[2] * b[1])
RAbs(a) == <<Abs(a[1]), a[2]>>
RLt(a, b) == a[1] * b[2] < b[1] * a[2]
RLe(a, b) == a[1] * b[2] <= b[1] * a[2]

\* a rate k/Grid as a rational
Rate(k) == Rat(k, Grid)

\* Python's seq[k], k possibly negative (counted from the end)
PyAt(seq, k) == IF k < 0 THEN seq[Len(seq) + k + 1] ELSE seq[k + 1]

\* ---------------------------------------------------------------- curves
Last(s) == s[Len(s)]

Pts == (0..Grid) \X (0..Grid)

\* the chains of k points that start at (0,0), never decrease in fpr or
\* tpr and move at every step (thresholds are distinct)
RECURSIVE Chains(_)
Chains(k) ==
    IF k = 1 THEN {<< <<0, 0>> >>}
    ELSE UNION {{Append(c, p) : p \in {q \in Pts : /\ q[1] >= Last(c)[1]
                                                    /\ q[2] >= Last(c)[2]
                                                    /\ q # Last(c)}}
                : c \in Chains(k - 1)}

\* a curve as roc_curve returns it: fpr, tpr non-decreasing from (0,0) to
\* (1,1), thresh strictly decreasing
MkCurve(c) ==
    [fpr    |-> [i \in 1..Len(c) |-> Rate(c[i][1])],
     tpr    |-> [i \in 1..Len(c) |-> Rate(c[i][2])],
     thresh |-> [i \in 1..Len(c) |-> RInt(Len(c) + 1 - i)]]

ValidCurves ==
    {MkCurve(c) : c \in {d \in UNION {Chains(k) : k \in 2..MaxPts} :
                            Last(d) = <<Grid, Grid>>}}

\* --------------------------------------------------------------- results
Return(v) == [kind |-> "return", exc |-> "", val |-> v]
ReturnNone == [kind |-> "none", exc |-> "", val |-> <<>>]
Raise(e) == [kind |-> "raise", exc |-> e, val |-> <<>>]

\* ------------------------------------------------------- neyman_pearson
\* line 412: the first 0-based index i >= from with tpr[i] >= min_rate,
\* or -1 when the loop ends without a match
RECURSIVE FirstTprAtLeast(_, _, _)
FirstTprAtLeast(tpr, min_rate, from) ==
    IF from >= Len(tpr) THEN -1
    ELSE IF RLe(min_rate, PyAt(tpr, from)) THEN from
    ELSE FirstTprAtLeast(tpr, min_rate, from + 1)

\* line 421: the first 0-based index i >= from with 1 - fpr[i] < min_rate,
\* or -1 when the loop ends without a match
RECURSIVE FirstTnrBelow(_, _, _)
FirstTnrBelow(fpr, min_rate, from) ==
    IF from >= Len(fpr) THEN -1
    ELSE IF RLt(RSub(RInt(1), PyAt(fpr, from)), min_rate) THEN from
    ELSE FirstTnrBelow(fpr, min_rate, from + 1)

neyman_pearson(fpr, tpr, thresh, min_rate, Se) ==
    IF Se
    THEN LET i == FirstTprAtLeast(tpr, min_rate, 0)
         IN  IF i = -1 THEN ReturnNone
             ELSE Return(<<PyAt(fpr, i), PyAt(tpr, i), PyAt(thresh, i)>>)
    ELSE LET i == FirstTnrBelow(fpr, min_rate, 0)
         IN  IF i = -1 THEN ReturnNone
             ELSE Return(<<PyAt(fpr, i - 1), PyAt(tpr, i - 1),
                           PyAt(thresh, i - 1)>>)

\* --------------------------------------------------------- max_youden_J
RECURSIVE YoudenLoop(_, _, _, _, _)
YoudenLoop(fpr, tpr, thresh, i, st) ==
    IF i >= Len(tpr) THEN st
    ELSE LET tnr == RSub(RInt(1), PyAt(fpr, i))
             J == RSub(RAdd(PyAt(tpr, i), tnr), RInt(1))
         IN  YoudenLoop(fpr, tpr, thresh, i + 1,
                 IF RLt(st.Jval, J)
                 THEN [Jval |-> RSub(RAdd(tnr, PyAt(tpr, i)), RInt(1)),
                       Jtpr |-> PyAt(tpr, i), Jtnr |-> tnr,
                       Jfpr |-> PyAt(fpr, i), Jthresh |-> PyAt(thresh, i),
                       JfprBound |-> TRUE]
                 ELSE st)

max_youden_J(fpr, tpr, thresh) ==
    LET st == YoudenLoop(fpr, tpr, thresh, 0,
                  [Jval |-> RInt(0), Jtpr |-> RInt(0), Jtnr |-> RInt(0),
                   Jfpr |-> RInt(0), Jthresh |-> RInt(0),
                   JfprBound |-> FALSE])
    IN  IF ~st.JfprBound THEN Raise("UnboundLocalError")
        ELSE Return(<<st.Jval, st.Jfpr, st.Jtpr, st.Jthresh>>)

\* ---------------------------------------------------------- bayes_error
\* a plausible slip: ">=" for ">" keeps the last point of a tie
BayesBetterOrEqual(acc, BAcc) == RLe(BAcc, acc)

\* line 609: (tpr[i] + tnr[i]) > BAcc
BayesBetter(acc, BAcc) == RLt(BAcc, acc)

RECURSIVE BayesLoop(_, _, _, _, _)
BayesLoop(tpr, tnr, thresh, i, st) ==
    IF i >= Len(tpr) THEN st
    ELSE BayesLoop(tpr, tnr, thresh, i + 1,
             IF BayesBetter(RAdd(PyAt(tpr, i), PyAt(tnr, i)), st.BAcc)
             THEN [Btpr |-> PyAt(tpr, i), Btnr |-> PyAt(tnr, i),
                   Bthresh |-> PyAt(thresh, i),
                   BAcc |-> RAdd(PyAt(tnr, i), PyAt(tpr, i))]
             ELSE st)

bayes_error(fpr, tpr0, thresh, Nn, Np) ==
    LET tpr == [i \in 1..Len(tpr0) |-> RMul(tpr0[i], RInt(Np))]
        tnr == [i \in 1..Len(fpr) |-> RMul(RSub(RInt(1), fpr[i]), RInt(Nn))]
        st == BayesLoop(tpr, tnr, thresh, 0,
                  [BAcc |-> RInt(0), Btpr |-> RInt(0), Btnr |-> RInt(0),
                   Bthresh |-> RInt(0)])
        Berror == RSub(RInt(1), RDiv(st.BAcc, RInt(Nn + Np)))
        Btpr == RDiv(st.Btpr, RInt(Np))
        Btnr == RDiv(st.Btnr, RInt(Nn))
        Bfpr == RSub(RInt(1), Btnr)
    IN  Return(<<Berror, Bfpr, Btpr, st.Bthresh>>)

\* ---------------------------------------------------- best_npv, best_ppv
\* a plausible slip: the comparison the wrong way round
NpvFarther(diff, npv_diff) == RLt(npv_diff, diff)

\* line 494: diff < npv_diff
NpvCloser(diff, npv_diff) == RLt(diff, npv_diff)

\* line 536: diff <= ppv_diff
PpvCloser(diff, ppv_diff) == RLe(diff, ppv_diff)

RECURSIVE NpvLoop(_, _, _, _, _, _, _, _)
NpvLoop(fpr, tpr, thresh, Nn, Np, target_npv, i, st) ==
    IF i >= Len(fpr) THEN st
    ELSE LET tnr_val == RSub(RInt(1), PyAt(fpr, i))
             fnr_val == RSub(RInt(1), PyAt(tpr, i))
             npv == RDiv(RMul(tnr_val, RInt(Nn)),
                         RAdd(RMul(tnr_val, RInt(Nn)), RMul(fnr_val, RInt(Np))))
             diff == RAbs(RSub(target_npv, npv))
         IN  NpvLoop(fpr, tpr, thresh, Nn, Np, target_npv, i + 1,
                 IF tnr_val = RInt(0) THEN st
                 ELSE IF NpvCloser(diff, st.npv_diff)
                 THEN [npv_diff |-> diff, B |-> npv, B_tpr |-> PyAt(tpr, i),
                       B_fpr |-> PyAt(fpr, i), B_thresh |-> PyAt(thresh, i),
                       bound |-> TRUE]
                 ELSE st)

best_npv(fpr, tpr, thresh, Nn, Np, target_npv) ==
    LET st == NpvLoop(fpr, tpr, thresh, Nn, Np, target_npv, 0,
                  [npv_diff |-> RInt(1), B |-> RInt(0), B_tpr |-> RInt(0),
                   B_fpr |-> RInt(0), B_thresh |-> RInt(0), bound |-> FALSE])
    IN  IF ~st.bound THEN Raise("UnboundLocalError")
        ELSE Return(<<st.B, st.B_fpr, st.B_tpr, st.B_thresh>>)

RECURSIVE PpvLoop(_, _, _, _, _, _, _, _)
PpvLoop(fpr, tpr, thresh, Nn, Np, target_ppv, i, st) ==
    IF i >= Len(tpr) THEN st
    ELSE LET tpr_val == PyAt(tpr, i)
             ppv == RDiv(RMul(tpr_val, RInt(Np)),
                         RAdd(RMul(tpr_val, RInt(Np)),
                              RMul(PyAt(fpr, i), RInt(Nn))))
             diff == RAbs(RSub(target_ppv, ppv))
         IN  PpvLoop(fpr, tpr, thresh, Nn, Np, target_ppv, i + 1,
                 IF tpr_val = RInt(0) THEN st
                 ELSE IF PpvCloser(diff, st.ppv_diff)
                 THEN [ppv_diff |-> diff, B |-> ppv, B_tpr |-> tpr_val,
                       B_fpr |-> PyAt(fpr, i), B_thresh |-> PyAt(thresh, i),
                       bound |-> TRUE]
                 ELSE st)

best_ppv(fpr, tpr, thresh, Nn, Np, target_ppv) ==
    LET st == PpvLoop(fpr, tpr, thresh, Nn, Np, target_ppv, 0,
                  [ppv_diff |-> RInt(1), B |-> RInt(0), B_tpr |-> RInt(0),
                   B_fpr |-> RInt(0), B_thresh |-> RInt(0), bound |-> FALSE])
    IN  IF ~st.bound THEN Raise("UnboundLocalError")
        ELSE Return(<<st.B, st.B_fpr, st.B_tpr, st.B_thresh>>)

\* ---------------------------------------------------------- metrics.auc
\* numpy.trapz(y, x)
RECURSIVE trapz(_, _, _)
trapz(y, x, i) ==
    IF i >= Len(x) THEN RInt(0)
    ELSE RAdd(RMul(RSub(x[i + 1], x[i]),
                   RDiv(RAdd(y[i + 1], y[i]), RInt(2))),
              trapz(y, x, i + 1))

\* (x1, y1) sorts before (x2, y2) under numpy.lexsort((y, x))
LexLe(p, q) == RLt(p[1], q[1]) \/ (p[1] = q[1] /\ RLe(p[2], q[2]))

RECURSIVE Insert(_, _)
Insert(s, p) ==
    IF s = <<>> THEN <<p>>
    ELSE IF LexLe(p, s[1]) THEN <<p>> \o s
    ELSE <<s[1]>> \o Insert(Tail(s), p)

RECURSIVE lexsort(_)
lexsort(s) == IF s = <<>> THEN <<>> ELSE Insert(lexsort(Tail(s)), s[1])

\* sklearn.metrics.auc(x, y, reorder) as partial_auc calls it
auc(x, y, reorder) ==
    IF Len(x) < 2 THEN Raise("ValueError")
    ELSE IF reorder
    THEN LET srt == lexsort([i \in 1..Len(x) |-> <<x[i], y[i]>>])
             xs == [i \in 1..Len(x) |-> srt[i][1]]
             ys == [i \in 1..Len(x) |-> srt[i][2]]
         IN  Return(trapz(ys, xs, 1))
    ELSE LET dec == \E i \in 1..(Len(x) - 1) : RLt(x[i + 1], x[i])
             inc == \E i \in 1..(Len(x) - 1) : RLt(x[i], x[i + 1])
         IN  IF dec /\ inc THEN Raise("ValueError")
             ELSE IF dec THEN Return(RSub(RInt(0), trapz(y, x, 1)))
             ELSE Return(trapz(y, x, 1))

\* ---------------------------------------------------------- partial_auc
\* "i = 0; while tpr[i] < op1: i += 1": the index reached, or Len(tpr) when
\* the scan runs off the end (IndexError)
RECURSIVE ScanUp(_, _, _)
ScanUp(tpr, op1, i) ==
    IF i >= Len(tpr) THEN i
    ELSE IF RLt(PyAt(tpr, i), op1) THEN ScanUp(tpr, op1, i + 1)
    ELSE i

\* "i = len(tpr)-1; while tpr[i] > op2: i -= 1": the index reached (negative
\* indices wrap), or -Len(tpr)-1 when the scan runs off (IndexError)
RECURSIVE ScanDown(_, _, _)
ScanDown(tpr, op2, i) ==
    IF i < -Len(tpr) THEN i
    ELSE IF RLt(op2, PyAt(tpr, i)) THEN ScanDown(tpr, op2, i - 1)
    ELSE i

\* a plausible slip: ">" for ">=" lets an empty window through
BadRangeStrict(op1, op2) == RLt(op2, op1)

\* line 319: op1 >= op2
BadRange(op1, op2) == RLe(op2, op1)

\* a plausible slip: the arguments of metrics.auc the wrong way round
FullAreaSwapped(fpr, tpr) == auc(tpr, fpr, FALSE)

\* line 350: metrics.auc(fpr, tpr)
FullArea(fpr, tpr) == auc(fpr, tpr, FALSE)

RECURSIVE partial_auc(_, _, _, _, _)
partial_auc(fpr, tpr, op1, op2, Sp) ==
    IF BadRange(op1, op2) THEN Raise("ValueError")
    ELSE IF RLt(RInt(0), op1) \/ RLt(op2, RInt(1))
    THEN IF Sp
         THEN LET o1 == RSub(RInt(1), op1)
                  o2 == RSub(RInt(1), op2)
                  mask == [i \in 1..Len(fpr) |->
                              RLe(o2, fpr[i]) /\ RLe(fpr[i], o1)]
                  mfpr == [i \in 1..Len(fpr) |->
                              IF mask[i] THEN fpr[i] ELSE RInt(0)]
                  mtpr == [i \in 1..Len(tpr) |->
                              IF mask[i] THEN tpr[i] ELSE RInt(0)]
              IN  auc(mfpr, mtpr, TRUE)
         ELSE LET i == ScanUp(tpr, op1, 0)
                  j == ScanDown(tpr, op2, Len(tpr) - 1)
              IN  IF i >= Len(tpr) \/ j < -Len(tpr) THEN Raise("IndexError")
                  ELSE LET Sp2 == RSub(RInt(1), PyAt(fpr, i))
                           Sp1 == RSub(RInt(1), PyAt(fpr, j))
                           r == partial_auc(fpr, tpr, Sp1, Sp2, TRUE)
                       IN  IF r.kind = "raise" THEN r
                           ELSE Return(RAdd(r.val,
                                    RSub(RMul(RSub(op2, op1), Sp1),
                                         RMul(RSub(Sp2, Sp1), op1))))
    ELSE FullArea(fpr, tpr)

\* ---------------------------------------------------- reliability_curve
\* a float: NaN, or the rational r
F(r) == [nan |-> FALSE, r |-> r]
NaN == [nan |-> TRUE, r |-> RInt(0)]

\* IEEE comparisons: every comparison with NaN is false
FLt(a, b) == ~a.nan /\ ~b.nan /\ RLt(a.r, b.r)
FLe(a, b) == ~a.nan /\ ~b.nan /\ RLe(a.r, b.r)

RECURSIVE RSum(_, _)
RSum(f, S) ==
    IF S = {} THEN RInt(0)
    ELSE LET i == CHOOSE j \in S : TRUE
         IN  RAdd(f[i], RSum(f, S \ {i}))

RMin(f) == CHOOSE m \in {f[i] : i \in DOMAIN f} :
               \A i \in DOMAIN f : RLe(m, f[i])
RMax(f) == CHOOSE m \in {f[i] : i \in DOMAIN f} :
               \A i \in DOMAIN f : RLe(f[i], m)

\* line 61: (y_score - min) / (max - min); 0/0 is NaN
Normalize(y_score) ==
    LET lo == RMin(y_score)
        hi == RMax(y_score)
    IN  [i \in DOMAIN y_score |->
            IF hi = lo THEN NaN
            ELSE F(RDiv(RSub(y_score[i], lo), RSub(hi, lo)))]

\* numpy.linspace(0, stop, num)[i]
linspace(stop, num, i) ==
    IF num = 1 THEN RInt(0) ELSE RMul(RInt(i), RDiv(stop, RInt(num - 1)))

bin_width(bins) == RDiv(RInt(1), RInt(bins))

bin_centers(bins, i) ==
    RAdd(linspace(RSub(RInt(1), bin_width(bins)), bins, i),
         RDiv(bin_width(bins), RInt(2)))

\* the (1-based) samples that fall into the i-th bin (i 0-based)
bin_idx(score, bins, i) ==
    LET threshold == bin_centers(bins, i)
        half == RDiv(bin_width(bins), RInt(2))
    IN  {j \in DOMAIN score :
            /\ FLt(F(RSub(threshold, half)), score[j])
            /\ FLe(score[j], F(RAdd(threshold, half)))}

\* mean of the floats f[j], j in S (S non-empty)
FMean(f, S) ==
    IF \E j \in S : f[j].nan THEN NaN
    ELSE F(RDiv(RSum([j \in DOMAIN f |-> f[j].r], S), RInt(Cardinality(S))))

reliability_curve(y_true, y_score, bins, normalize) ==
    LET score == IF normalize THEN Normalize(y_score)
                 ELSE [i \in DOMAIN y_score |-> F(y_score[i])]
        truth == [i \in DOMAIN y_true |-> F(RInt(y_true[i]))]
        idx == [b \in 1..bins |-> bin_idx(score, bins, b - 1)]
        y_score_bin_mean ==
            [b \in 1..bins |->
                IF idx[b] # {} THEN FMean(score, idx[b]) ELSE F(RInt(0))]
        empirical_prob_pos ==
            [b \in 1..bins |->
                IF idx[b] # {} THEN FMean(truth, idx[b]) ELSE F(RInt(0))]
    IN  Return(<<y_score_bin_mean, empirical_prob_pos>>)

\* ------------------------------------------------------------ pav_rocch
\* the permutations numpy.argsort(score) may return (1-based): any order
\* of the indices that sorts score; the order of ties is not specified
argsort(score) ==
    {p \in [DOMAIN score -> DOMAIN score] :
        /\ \A i, j \in DOMAIN score : i # j => p[i] # p[j]
        /\ \A i \in 1..(Len(score) - 1) : score[p[i]] <= score[p[i + 1]]}

\* a plausible slip: only the first difference is tested
MonotoneFirstOnly(w) == IF Len(w) < 2 THEN TRUE ELSE RLe(w[1], w[2])

\* line 199: np.all(np.diff(v) >= 0)
Monotone(w) == \A i \in 1..(Len(w) - 1) : RLe(w[i], w[i + 1])

\* line 202: viol[0], the first (0-based) index whose difference is negative
FirstViol(w) ==
    CHOOSE k \in 0..(Len(w) - 2) :
        /\ RLt(w[k + 2], w[k + 1])
        /\ \A m \in 0..(k - 1) : ~RLt(w[m + 2], w[m + 1])

\* a plausible slip: the end of the violating index's own level set, so
\* that nothing is merged
PoolLastOwn(lv, viol0) == PyAt(lv, viol0)[2]

\* line 204: last = lvlsets[viol[0] + 1, 1]
PoolLast(lv, viol0) == PyAt(lv, viol0 + 1)[2]

\* truncation toward zero, as numpy casts a float stored into an int array
Trunc(r) == IF r[1] >= 0 THEN r[1] \div r[2] ELSE -((-r[1]) \div r[2])

\* "v[i] = val": v has the dtype of target (line 193)
Store(dtype, val) == IF dtype = "int" THEN RInt(Trunc(val)) ELSE val

\* ---------------------------------------------------------------- state
VARIABLES
    pc,       \* "idle", "pav_loop" (inside the while of pav_rocch), "done"
    fn,       \* the function that was called
    args,     \* its arguments
    ret,      \* what it returned or raised
    t,        \* pav_rocch: target sorted by score
    v,        \* pav_rocch: the working array
    lvlsets,  \* pav_rocch: per index, <<start, last>> (0-based)
    iters     \* pav_rocch: pooling iterations done

vars == <<pc, fn, args, ret, t, v, lvlsets, iters>>

NoRet == [kind |-> "pending", exc |-> "", val |-> <<>>]

Init ==
    /\ pc = "idle"
    /\ fn = "none"
    /\ args = <<>>
    /\ ret = NoRet
    /\ t = <<>>
    /\ v = <<>>
    /\ lvlsets = <<>>
    /\ iters = 0

Rates == {Rate(k) : k \in 0..Grid}
Counts == 1..MaxCount

pavUnchanged == UNCHANGED <<t, v, lvlsets, iters>>

Call_neyman_pearson ==
    /\ pc = "idle"
    /\ \E c \in ValidCurves, m \in 0..(Grid + 1), Se \in BOOLEAN :
          /\ args' = [curve |-> c, min_rate |-> Rate(m), Se |-> Se]
          /\ ret' = neyman_pearson(c.fpr, c.tpr, c.thresh, Rate(m), Se)
    /\ fn' = "neyman_pearson"
    /\ pc' = "done"
    /\ pavUnchanged

Call_max_youden_J ==
    /\ pc = "idle"
    /\ \E c \in ValidCurves :
          /\ args' = [curve |-> c]
          /\ ret' = max_youden_J(c.fpr, c.tpr, c.thresh)
    /\ fn' = "max_youden_J"
    /\ pc' = "done"
    /\ pavUnchanged

Call_bayes_error ==
    /\ pc = "idle"
    /\ \E c \in ValidCurves, Nn \in Counts, Np \in Counts :
          /\ args' = [curve |-> c, Nn |-> Nn, Np |-> Np]
          /\ ret' = bayes_error(c.fpr, c.tpr, c.thresh, Nn, Np)
    /\ fn' = "bayes_error"
    /\ pc' = "done"
    /\ pavUnchanged

Call_best_npv ==
    /\ pc = "idle"
    /\ \E c \in ValidCurves, Nn \in Counts, Np \in Counts, g \in 0..Grid :
          /\ args' = [curve |-> c, Nn |-> Nn, Np |-> Np, target |-> Rate(g)]
          /\ ret' = best_npv(c.fpr, c.tpr, c.thresh, Nn, Np, Rate(g))
    /\ fn' = "best_npv"
    /\ pc' = "done"
    /\ pavUnchanged

Call_best_ppv ==
    /\ pc = "idle"
    /\ \E c \in ValidCurves, Nn \in Counts, Np \in Counts, g \in 0..Grid :
          /\ args' = [curve |-> c, Nn |-> Nn, Np |-> Np, target |-> Rate(g)]
          /\ ret' = best_ppv(c.fpr, c.tpr, c.thresh, Nn, Np, Rate(g))
    /\ fn' = "best_ppv"
    /\ pc' = "done"
    /\ pavUnchanged

Call_partial_auc ==
    /\ pc = "idle"
    /\ \E c \in ValidCurves, op1 \in Rates, op2 \in Rates, Sp \in BOOLEAN :
          /\ args' = [curve |-> c, op1 |-> op1, op2 |-> op2, Sp |-> Sp]
          /\ ret' = partial_auc(c.fpr, c.tpr, op1, op2, Sp)
    /\ fn' = "partial_auc"
    /\ pc' = "done"
    /\ pavUnchanged

Call_reliability_curve ==
    /\ pc = "idle"
    /\ \E n \in 1..MaxSamples, bins \in 1..MaxBins, normalize \in BOOLEAN :
          \E y_true \in [1..n -> {0, 1}], y_score \in [1..n -> Rates] :
             /\ args' = [y_true |-> y_true, y_score |-> y_score,
                         bins |-> bins, normalize |-> normalize]
             /\ ret' = reliability_curve(y_true, y_score, bins, normalize)
    /\ fn' = "reliability_curve"
    /\ pc' = "done"
    /\ pavUnchanged

\* lines 186-196: sort by score, copy, singleton level sets
Call_pav_rocch ==
    /\ pc = "idle"
    /\ \E n \in 1..MaxN, dtype \in {"int", "float"} :
          \E target \in [1..n -> {0, 1}], score \in [1..n -> 0..MaxScore] :
             \E s_ind \in argsort(score) :
                /\ args' = [target |-> target, score |-> score,
                            dtype |-> dtype]
                /\ t' = [i \in 1..n |-> target[s_ind[i]]]
                /\ v' = [i \in 1..n |-> RInt(target[s_ind[i]])]
                /\ lvlsets' = [i \in 1..n |-> <<i - 1, i - 1>>]
    /\ iters' = 0
    /\ fn' = "pav_rocch"
    /\ ret' = NoRet
    /\ pc' = "pav_loop"

\* lines 198-200 and 216: all differences >= 0, leave the loop and return
PavExit ==
    /\ pc = "pav_loop"
    /\ Monotone(v)
    /\ ret' = Return(<<t, v>>)
    /\ pc' = "done"
    /\ UNCHANGED <<fn, args, t, v, lvlsets, iters>>

\* lines 202-214: pool the level sets around the first violation
PavPool ==
    /\ pc = "pav_loop"
    /\ ~Monotone(v)
    /\ LET viol0 == FirstViol(v)
           start == PyAt(lvlsets, viol0)[1]
           last == PoolLast(lvlsets, viol0)
           s == RSum(v, (start + 1)..(last + 1))
           n == last - start + 1
           val == RDiv(s, RInt(n))
       IN  /\ v' = [i \in 1..Len(v) |->
                       IF i - 1 \in start..last THEN Store(args.dtype, val)
                       ELSE v[i]]
           /\ lvlsets' = [i \in 1..Len(v) |->
                       IF i - 1 \in start..last THEN <<start, last>>
                       ELSE lvlsets[i]]
    /\ iters' = iters + 1
    /\ UNCHANGED <<pc, fn, args, ret, t>>

Next ==
    \/ Call_neyman_pearson
    \/ Call_max_youden_J
    \/ Call_bayes_error
    \/ Call_best_npv
    \/ Call_best_ppv
    \/ Call_partial_auc
    \/ Call_reliability_curve
    \/ Call_pav_rocch
    \/ PavExit
    \/ PavPool

Spec == Init /\ [][Next]_vars

\* ================================================================ claims
Done(f) == fn = f /\ pc = "done"

\* ---- C1: the v that pav_rocch returns is non-decreasing: v[i] <= v[i+1]
\* for every adjacent pair.
C1_PavOutputNonDecreasing ==
    Done("pav_rocch") =>
        /\ ret.kind = "return"
        /\ \A i \in 1..(Len(ret.val[2]) - 1) :
              RLe(ret.val[2][i], ret.val[2][i + 1])

\* a float input of three samples that needed two pooling iterations
C1_Witness ==
    /\ Done("pav_rocch")
    /\ args.dtype = "float"
    /\ Len(v) = 3
    /\ iters = 2

\* ---- C2: the v that pav_rocch returns has a sum of squared errors
\* against the sorted targets no larger than that of any non-decreasing
\* sequence (here: every non-decreasing sequence over the block-mean values
\* k/d, d <= n, among which the isotonic regression lies).
SSE(w, y) ==
    RSum([i \in 1..Len(w) |->
             RMul(RSub(w[i], RInt(y[i])), RSub(w[i], RInt(y[i])))],
         1..Len(w))

MeanValues(n) == {Rat(k, d) : k \in 0..n, d \in 1..n} \cap
                 {r \in (0..n) \X (1..n) : RLe(r, RInt(1))}

IsoCandidates(n) ==
    {w \in [1..n -> MeanValues(n)] :
        \A i \in 1..(n - 1) : RLe(w[i], w[i + 1])}

C2_PavLeastSquares ==
    Done("pav_rocch") =>
        \A w \in IsoCandidates(Len(t)) : RLe(SSE(ret.val[2], t), SSE(w, t))

\* ---- C3: partial_auc with op1 = 0 and op2 = 1 returns the full
\* trapezoidal area under the curve, whatever Sp is.
TrapezoidArea(c) ==
    RDiv(RSum([i \in 1..(Len(c.fpr) - 1) |->
                  RMul(RSub(c.fpr[i + 1], c.fpr[i]),
                       RAdd(c.tpr[i + 1], c.tpr[i]))],
              1..(Len(c.fpr) - 1)),
         RInt(2))

C3_PartialAucFullRange ==
    (Done("partial_auc") /\ args.op1 = RInt(0) /\ args.op2 = RInt(1)) =>
        /\ ret.kind = "return"
        /\ ret.val = TrapezoidArea(args.curve)

\* the Se form of the call on a curve whose area is not 1/2
C3_Witness ==
    /\ Done("partial_auc")
    /\ args.op1 = RInt(0)
    /\ args.op2 = RInt(1)
    /\ ~args.Sp
    /\ Len(args.curve.fpr) >= 3
    /\ ret.kind = "return"
    /\ RLt(Rat(1, 2), ret.val)

\* ---- C4: partial_auc raises the domain error (ValueError) whenever
\* op1 >= op2, whatever Sp is.
C4_PartialAucDomainError ==
    (Done("partial_auc") /\ RLe(args.op2, args.op1)) =>
        ret = Raise("ValueError")

\* op1 = op2 strictly inside (0, 1), in the Se form
C4_Witness ==
    /\ Done("partial_auc")
    /\ args.op1 = args.op2
    /\ RLt(RInt(0), args.op1)
    /\ RLt(args.op1, RInt(1))
    /\ ~args.Sp
    /\ ret.kind = "raise"

\* ---- C5: for every valid curve, curves that never rise above the chance
\* diagonal included, max_youden_J returns a result whose Jval is the
\* maximum over all points of tpr[i] + (1 - fpr[i]) - 1.
YoudenAt(c, i) == RSub(RAdd(c.tpr[i], RSub(RInt(1), c.fpr[i])), RInt(1))

C5_YoudenReturnsMax ==
    Done("max_youden_J") =>
        /\ ret.kind = "return"
        /\ \E i \in 1..Len(args.curve.fpr) :
              /\ ret.val[1] = YoudenAt(args.curve, i)
              /\ \A j \in 1..Len(args.curve.fpr) :
                    RLe(YoudenAt(args.curve, j), ret.val[1])

\* ---- C6: with target 1.0, best_ppv returns the highest ppv among the
\* curve points and a point that attains it, and best_npv the highest npv
\* and a point that attains it (ppv = 0 where tpr = 0, npv = 0 where
\* tnr = 0).
PpvAt(c, i, Nn, Np) ==
    IF c.tpr[i] = RInt(0) THEN RInt(0)
    ELSE Rat(c.tpr[i][1] * Np * c.fpr[i][2],
             c.tpr[i][1] * Np * c.fpr[i][2] + c.fpr[i][1] * Nn * c.tpr[i][2])

NpvAt(c, i, Nn, Np) ==
    LET tn == RSub(RInt(1), c.fpr[i])
        fneg == RSub(RInt(1), c.tpr[i])
    IN  IF tn = RInt(0) THEN RInt(0)
        ELSE Rat(tn[1] * Nn * fneg[2],
                 tn[1] * Nn * fneg[2] + fneg[1] * Np * tn[2])

PvAt(f, c, i, Nn, Np) ==
    IF f = "best_ppv" THEN PpvAt(c, i, Nn, Np) ELSE NpvAt(c, i, Nn, Np)

C6_BestPvTargetOne ==
    \A f \in {"best_ppv", "best_npv"} :
        (Done(f) /\ args.target = RInt(1)) =>
            /\ ret.kind = "return"
            /\ \A j \in 1..Len(args.curve.fpr) :
                  RLe(PvAt(f, args.curve, j, args.Nn, args.Np), ret.val[1])
            /\ \E i \in 1..Len(args.curve.fpr) :
                  /\ PvAt(f, args.curve, i, args.Nn, args.Np) = ret.val[1]
                  /\ args.curve.fpr[i] = ret.val[2]
                  /\ args.curve.tpr[i] = ret.val[3]
                  /\ args.curve.thresh[i] = ret.val[4]

\* best_ppv on a curve whose best ppv is below 1 and is not at the last
\* point
C6_Witness ==
    /\ Done("best_ppv")
    /\ args.target = RInt(1)
    /\ args.Nn # args.Np
    /\ ret.kind = "return"
    /\ RLt(ret.val[1], RInt(1))
    /\ ret.val[4] # Last(args.curve.thresh)

\* ---- C7: when no curve point satisfies the constraint (Se: no
\* tpr[i] >= min_rate; Sp: 1 - fpr[i] never falls below min_rate),
\* neyman_pearson returns the all-zero point (0, 0, 0) and does not raise.
NoPointSatisfies ==
    IF args.Se
    THEN \A i \in 1..Len(args.curve.tpr) :
            RLt(args.curve.tpr[i], args.min_rate)
    ELSE \A i \in 1..Len(args.curve.fpr) :
            RLe(args.min_rate, RSub(RInt(1), args.curve.fpr[i]))

C7_NeymanPearsonSentinel ==
    (Done("neyman_pearson") /\ NoPointSatisfies) =>
        ret = Return(<<RInt(0), RInt(0), RInt(0)>>)

\* ---- C8: constraining specificity (Se = False), whenever neyman_pearson
\* returns a point, that point is the last one still meeting the
\* constraint: its tnr >= min_rate and the next point has tnr < min_rate.
C8_NeymanPearsonSpLast ==
    (Done("neyman_pearson") /\ ~args.Se /\ ret.kind = "return") =>
        \E i \in 1..(Len(args.curve.fpr) - 1) :
            /\ ret.val = <<args.curve.fpr[i], args.curve.tpr[i],
                           args.curve.thresh[i]>>
            /\ RLe(args.min_rate, RSub(RInt(1), args.curve.fpr[i]))
            /\ RLt(RSub(RInt(1), args.curve.fpr[i + 1]), args.min_rate)

\* ---- C9: when all scores are identical, reliability_curve places every
\* sample in one bin, which reports the mean score and the mean label, and
\* returns 0 for every other bin, without raising and without NaN, with
\* normalize on and off.
AllScoresIdentical ==
    \A i, j \in DOMAIN args.y_score : args.y_score[i] = args.y_score[j]

ScoreUsed ==
    IF args.normalize THEN Normalize(args.y_score)
    ELSE [i \in DOMAIN args.y_score |-> F(args.y_score[i])]

C9_ReliabilityIdenticalScores ==
    (Done("reliability_curve") /\ AllScoresIdentical) =>
        /\ ret.kind = "return"
        /\ \A b \in 1..args.bins : ~ret.val[1][b].nan /\ ~ret.val[2][b].nan
        /\ \E b \in 1..args.bins :
              /\ bin_idx(ScoreUsed, args.bins, b - 1) = DOMAIN args.y_score
              /\ ret.val[2][b] =
                    F(Rat(Cardinality({i \in DOMAIN args.y_true :
                                          args.y_true[i] = 1}),
                          Len(args.y_true)))
              /\ \A o \in (1..args.bins) \ {b} :
                    ret.val[1][o] = F(RInt(0)) /\ ret.val[2][o] = F(RInt(0))

\* ---- C10: bayes_error returns Berror = 1 - max_i(tpr[i]*Np +
\* (1 - fpr[i])*Nn)/(Nn + Np) and the coordinates and threshold of the
\* first curve point that attains it.
AccAt(c, i, Nn, Np) ==
    RAdd(RMul(c.tpr[i], RInt(Np)),
         RMul(RSub(RInt(1), c.fpr[i]), RInt(Nn)))

IsMaxAcc(c, i, Nn, Np) ==
    \A j \in 1..Len(c.fpr) : RLe(AccAt(c, j, Nn, Np), AccAt(c, i, Nn, Np))

C10_BayesErrorFirstMin ==
    Done("bayes_error") =>
        /\ ret.kind = "return"
        /\ \E i \in 1..Len(args.curve.fpr) :
              /\ IsMaxAcc(args.curve, i, args.Nn, args.Np)
              /\ \A j \in 1..(i - 1) :
                    ~IsMaxAcc(args.curve, j, args.Nn, args.Np)
              /\ ret.val[1] =
                    RSub(RInt(1), RDiv(AccAt(args.curve, i, args.Nn, args.Np),
                                       RInt(args.Nn + args.Np)))
              /\ ret.val[2] = args.curve.fpr[i]
              /\ ret.val[3] = args.curve.tpr[i]
              /\ ret.val[4] = args.curve.thresh[i]

\* two points tie for the fewest errors and the first of them, not the
\* origin, is returned
C10_Witness ==
    /\ Done("bayes_error")
    /\ ret.kind = "return"
    /\ ret.val[4] # args.curve.thresh[1]
    /\ \E j \in 1..Len(args.curve.fpr) :
          /\ IsMaxAcc(args.curve, j, args.Nn, args.Np)
          /\ RLt(args.curve.thresh[j], ret.val[4])

\* ---- C11: when several curve points tie for the minimum absolute
\* distance to the target, best_ppv returns the last of them in curve order
\* and best_npv the first.
DistAt(f, c, i, Nn, Np, target) == RAbs(RSub(target, PvAt(f, c, i, Nn, Np)))

\* the (1-based) points of the curve at minimum distance from the target
Closest(f) ==
    {i \in 1..Len(args.curve.fpr) :
        \A j \in 1..Len(args.curve.fpr) :
            RLe(DistAt(f, args.curve, i, args.Nn, args.Np, args.target),
                DistAt(f, args.curve, j, args.Nn, args.Np, args.target))}

MaxOf(S) == CHOOSE m \in S : \A k \in S : k <= m
MinOf(S) == CHOOSE m \in S : \A k \in S : m <= k

ReturnsPoint(i) ==
    /\ ret.kind = "return"
    /\ ret.val[2] = args.curve.fpr[i]
    /\ ret.val[3] = args.curve.tpr[i]
    /\ ret.val[4] = args.curve.thresh[i]

C11_TieBreakLastFirst ==
    /\ (Done("best_ppv") /\ Cardinality(Closest("best_ppv")) >= 2) =>
          ReturnsPoint(MaxOf(Closest("best_ppv")))
    /\ (Done("best_npv") /\ Cardinality(Closest("best_npv")) >= 2) =>
          ReturnsPoint(MinOf(Closest("best_npv")))

\* ---- C12: for every target, best_ppv (best_npv) returns a point whose
\* ppv (npv) is at minimum absolute distance from the target among all
\* curve points, with ppv = 0 where tpr = 0 and npv = 0 where tnr = 0.
C12_BestPvMinDistance ==
    \A f \in {"best_ppv", "best_npv"} :
        Done(f) =>
            \E i \in Closest(f) :
                /\ ReturnsPoint(i)
                /\ ret.val[1] = PvAt(f, args.curve, i, args.Nn, args.Np)

\* ---- C13: with Sp = True and a proper sub-window (op1 > 0 or op2 < 1,
\* op1 < op2), partial_auc returns the trapezoidal area under the curve
\* restricted to the points whose fpr lies in [1-op2, 1-op1]; the zeroed
\* points contribute no area, so the result never exceeds op2 - op1.
InWindow(c, i, op1, op2) ==
    /\ RLe(RSub(RInt(1), op2), c.fpr[i])
    /\ RLe(c.fpr[i], RSub(RInt(1), op1))

\* the area between consecutive points of the curve that both lie in the
\* window
RestrictedArea(c, op1, op2) ==
    LET K == {i \in 1..(Len(c.fpr) - 1) :
                 InWindow(c, i, op1, op2) /\ InWindow(c, i + 1, op1, op2)}
    IN  RDiv(RSum([i \in 1..(Len(c.fpr) - 1) |->
                      RMul(RSub(c.fpr[i + 1], c.fpr[i]),
                           RAdd(c.tpr[i + 1], c.tpr[i]))], K),
             RInt(2))

ProperWindow ==
    /\ RLt(args.op1, args.op2)
    /\ RLt(RInt(0), args.op1) \/ RLt(args.op2, RInt(1))

C13_PartialAucSpWindow ==
    (Done("partial_auc") /\ args.Sp /\ ProperWindow) =>
        /\ ret.kind = "return"
        /\ ret.val = RestrictedArea(args.curve, args.op1, args.op2)
        /\ RLe(ret.val, RSub(args.op2, args.op1))

\* ---- C14: with Sp = False and 0 <= op1 < op2 <= 1 (not both 0 and 1),
\* partial_auc completes without raising and returns the vertical partial
\* AUC over [Sp1, Sp2] plus (op2-op1)*Sp1 - (Sp2-Sp1)*op1, Sp2 being the
\* specificity at the first point with tpr >= op1 and Sp1 that at the last
\* point with tpr <= op2; the recursive call is made with Sp1 < Sp2.
FirstAtLeast(c, op1) ==
    MinOf({i \in 1..Len(c.tpr) : RLe(op1, c.tpr[i])})

LastAtMost(c, op2) ==
    MaxOf({i \in 1..Len(c.tpr) : RLe(c.tpr[i], op2)})

C14_PartialAucSeCompletes ==
    (Done("partial_auc") /\ ~args.Sp /\ ProperWindow) =>
        LET Sp2 == RSub(RInt(1),
                        args.curve.fpr[FirstAtLeast(args.curve, args.op1)])
            Sp1 == RSub(RInt(1),
                        args.curve.fpr[LastAtMost(args.curve, args.op2)])
            vert == partial_auc(args.curve.fpr, args.curve.tpr, Sp1, Sp2, TRUE)
        IN  /\ RLt(Sp1, Sp2)
            /\ ret.kind = "return"
            /\ vert.kind = "return"
            /\ ret.val = RAdd(vert.val,
                              RSub(RMul(RSub(args.op2, args.op1), Sp1),
                                   RMul(RSub(Sp2, Sp1), args.op1)))

\* ---- C15: the pooling loop of pav_rocch terminates: every iteration
\* that does not exit merges at least two level sets into one, so at most
\* n-1 pooling iterations are performed.  (Stated as a bound: the pooling
\* iterations done plus the level sets left never exceed n.)
LevelSets == {lvlsets[i] : i \in 1..Len(lvlsets)}

C15_PavPoolingBounded ==
    fn = "pav_rocch" =>
        /\ iters + Cardinality(LevelSets) <= Len(v)
        /\ iters <= Len(v) - 1

\* an input that takes the full n-1 pooling iterations
C15_Witness ==
    /\ Done("pav_rocch")
    /\ Len(v) >= 3
    /\ iters = Len(v) - 1
    /\ Cardinality(LevelSets) = 1

\* ---- C16: at every iteration of the pav_rocch loop the level sets
\* partition the indices into contiguous ranges (every index lies in its own
\* range and all indices of a range carry that range), v is constant on each
\* range and equal to the mean of the sorted targets in it, and so the sum
\* of v equals the sum of the sorted targets.
RangeMean(a, b) ==
    Rat(Cardinality({i \in (a + 1)..(b + 1) : t[i] = 1}), b - a + 1)

C16_LevelSetInvariant ==
    fn = "pav_rocch" =>
        /\ \A i \in 1..Len(v) :
              LET a == lvlsets[i][1]
                  b == lvlsets[i][2]
              IN  /\ a <= i - 1 /\ i - 1 <= b
                  /\ \A j \in (a + 1)..(b + 1) : lvlsets[j] = lvlsets[i]
                  /\ v[i] = RangeMean(a, b)
        /\ RSum(v, 1..Len(v)) = RInt(Cardinality({i \in 1..Len(t) : t[i] = 1}))

\* ---- C17: in reliability_curve every sample whose (normalized) score
\* lies in [0, 1] is selected by exactly one bin, so the bin counts sum to
\* the number of samples; in particular the samples holding the minimum
\* score, which normalization maps to 0, are counted in the first bin.
InUnitInterval(x) == FLe(F(RInt(0)), x) /\ FLe(x, F(RInt(1)))

BinsOf(j) == {b \in 1..args.bins : j \in bin_idx(ScoreUsed, args.bins, b - 1)}

C17_BinsPartitionSamples ==
    Done("reliability_curve") =>
        /\ \A j \in DOMAIN args.y_score :
              InUnitInterval(ScoreUsed[j]) => Cardinality(BinsOf(j)) = 1
        /\ \A j \in DOMAIN args.y_score :
              ScoreUsed[j] = F(RInt(0)) => BinsOf(j) = {1}

====
